---- MODULE Spec2Model ----
(***************************************************************************)
(* Model of src/train.py: the masked training / evaluation engine.         *)
(*                                                                         *)
(*   masking_struc_seqs_ids  (lines 137-152)  per-row masking              *)
(*   train_model             (lines 62-135)   Train phase                  *)
(*   evaluate_model          (lines 155-237)  Evaluate phase               *)
(*   main                    (lines 364-404)  epoch loop                   *)
(*                                                                         *)
(* Tensors are indexed as in the source: a row is a function from the      *)
(* positions 0..RowLen-1 to token ids, a batch is a sequence of rows.      *)
(* masking_ratio is the rational ratio_num / RatioDen.                     *)
(***************************************************************************)
EXTENDS Integers, Sequences, FiniteSets

\* ------------------------------------------------------------------ bounds
\* Length of a tokenized row (max_len of the collated batch).
RowLen == 4
\* masking_ratio ranges over k / RatioDen, k in 1..RatioDen, i.e. (0,1].
RatioDen == 4
\* Rows of the tensor handed to one call of masking_struc_seqs_ids (SpecMask).
MaskRows == 2
\* Rows per batch in the whole-program specification.
BatchRows == 1
\* Batches a loader yields at most in one phase.
MaxBatches == 2
\* Largest configured number of epochs.
MaxEpochs == 2

\* ------------------------------------------------------- program constants
\* tokenizer_struc_seqs.mask_id and .eos_id; 0 stands for every other token.
mask_id == 1
eos_id == 2
\* The ignore value written into the labels and given to CrossEntropyLoss.
IgnoreIndex == -100

Vocab == 0..eos_id
Positions == 0..(RowLen - 1)
Rows == [Positions -> Vocab]

Max(a, b) == IF a >= b THEN a ELSE b
Min(a, b) == IF a <= b THEN a ELSE b

\* --------------------------------------------- masking_struc_seqs_ids, a row
\* (input_id == eos_token_id).nonzero(as_tuple=True)[0]: every index of eos.
EosPositions(row) == {p \in DOMAIN row : row[p] = eos_id}

\* Faulty variant of ItemOk: any occurrence will do, the first one is taken ([0][0]).
ItemFirst(row) == EosPositions(row) # {}

\* .item() converts a one-element tensor only; it raises on 0 or >= 2 elements.
ItemOk(row) == Cardinality(EosPositions(row)) = 1

\* end_idx: the index .item() returns (the only one when ItemOk; the first otherwise).
end_idx(row) == CHOOSE p \in EosPositions(row) : \A q \in EosPositions(row) : p <= q

\* seq_len = end_idx - 1
seq_len(row) == end_idx(row) - 1

\* round(n / d) for n >= 0, halves to the even neighbour (Python's round).
IntRound(n, d) ==
  LET q == n \div d
      r == n % d
  IN IF 2 * r < d THEN q
     ELSE IF 2 * r > d THEN q + 1
     ELSE IF q % 2 = 0 THEN q ELSE q + 1

\* int(n / d): truncation toward zero.
IntTrunc(n, d) == IF n >= 0 THEN n \div d ELSE -((-n) \div d)

\* Faulty variant of num_elements_to_mask: round() in place of int().
num_elements_rounded(row, rnum) == Max(1, IntRound(seq_len(row) * rnum, RatioDen))

\* num_elements_to_mask = max(1, int(seq_len * masking_ratio))
num_elements_to_mask(row, rnum) == Max(1, IntTrunc(seq_len(row) * rnum, RatioDen))

\* torch.randperm(n) raises for n < 0; so does .item() unless exactly one eos.
RowRaises(row) == IF ItemOk(row) THEN seq_len(row) < 0 ELSE TRUE

\* torch.randperm(seq_len)[:num] + 1: the first num entries of a random
\* permutation of 0..seq_len-1, shifted by one; the slice is shorter when
\* seq_len < num. As a set: any subset of 1..seq_len of that size.
IdxChoices(row, rnum) ==
  {S \in SUBSET (1..seq_len(row)) :
     Cardinality(S) = Min(num_elements_to_mask(row, rnum), seq_len(row))}

\* input_id[idxs_to_mask] = mask_token_id
MaskRow(row, idxs) ==
  [p \in DOMAIN row |-> IF p \in idxs THEN mask_id ELSE row[p]]

\* Faulty variant of CloneBuffer: the rows are masked in the caller's tensor.
CloneAlias == "alias"

\* decoder_input_ids.clone(): the masked tensor is a fresh buffer ("copy");
\* without the clone it would be the caller's buffer ("alias").
CloneBuffer == "copy"

\* The caller's tensor after in-place masking of the tensor being masked.
InputAfterMasking(input, masked) == IF CloneBuffer = "copy" THEN input ELSE masked

\* ------------------------------------------- masking_struc_seqs_ids, a batch
Batches == UNION {[1..n -> Rows] : n \in 1..BatchRows}

\* The for loop raises at the first row that raises.
BatchRaises(batch) == \E i \in DOMAIN batch : RowRaises(batch[i])

\* One idxs_to_mask per row.
PlanChoices(batch, rnum) ==
  {pl \in [DOMAIN batch -> SUBSET Positions] :
     \A i \in DOMAIN batch : pl[i] \in IdxChoices(batch[i], rnum)}

MaskBatch(batch, pl) == [i \in DOMAIN batch |-> MaskRow(batch[i], pl[i])]

\* ------------------------------------------------ labels, loss and metrics
\* masked_labels = decoder_input_ids.clone(); mask = (masked == mask_id);
\* masked_labels[~mask] = -100
MaskedLabels(input, masked) ==
  [i \in DOMAIN input |->
     [p \in Positions |-> IF masked[i][p] = mask_id THEN input[i][p] ELSE IgnoreIndex]]

\* The positions of the flattened tensors (view(-1) only reshapes).
Flat(batch) == (DOMAIN batch) \X Positions

\* correct_mask = masked_labels != -100
CorrectMask(labels) == {ip \in Flat(labels) : labels[ip[1]][ip[2]] # IgnoreIndex}

\* The flat positions in row-major order, restricted to a mask.
RECURSIVE Select(_, _, _, _)
Select(t, mask, i, p) ==
  IF i > Len(t) THEN <<>>
  ELSE IF p >= RowLen THEN Select(t, mask, i + 1, 0)
  ELSE (IF <<i, p>> \in mask THEN <<t[i][p]>> ELSE <<>>) \o Select(t, mask, i, p + 1)

\* predicted[correct_mask], masked_labels[correct_mask]
Masked(t, mask) == Select(t, mask, 1, 0)

\* (predicted[correct_mask] == masked_labels[correct_mask]).sum().item()
CorrectCount(predicted, labels) ==
  Cardinality({ip \in CorrectMask(labels) : predicted[ip[1]][ip[2]] = labels[ip[1]][ip[2]]})

\* Faulty variant of SampleCount: every position counts, ignored or not.
AllCount(labels) == Cardinality(Flat(labels))

\* correct_mask.sum().item()
SampleCount(labels) == Cardinality(CorrectMask(labels))

\* criterion = CrossEntropyLoss(ignore_index=-100, reduction='mean'): the mean
\* over the non-ignored positions, nan when there is none. A loss is "finite"
\* or "nan"; its magnitude depends on the model and is left open.
Criterion(labels) == IF CorrectMask(labels) = {} THEN "nan" ELSE "finite"

\* total_loss += loss.item(), from total_loss = 0.0 ("zero").
AddLoss(total, l) == IF total = "nan" \/ l = "nan" THEN "nan" ELSE "finite"

\* accuracy = total_correct / total_samples if total_samples > 0 else 0,
\* as the fraction <<numerator, denominator>>; 0 is 0/1.
Accuracy(correct, samples) == IF samples > 0 THEN <<correct, samples>> ELSE <<0, 1>>

\* torch.max(logits, dim=-1): one class per position, whatever the model
\* computes. Positions outside correct_mask are read by nothing (lines 214-217
\* index with correct_mask), so one representative value stands there.
PredictedChoices(labels) ==
  {pr \in [DOMAIN labels -> [Positions -> Vocab]] :
     \A i \in DOMAIN labels : \A p \in Positions :
        <<i, p>> \notin CorrectMask(labels) => pr[i][p] = 0}

\* Faulty variant of ModeAfterEval: evaluate_model without its model.eval().
ModeLeftTraining == "train"

\* model.train() / model.eval(): the value of model.training afterwards.
ModeAfterTrain == "train"
ModeAfterEval == "eval"

VARIABLES
  ratio_num,   \* masking_ratio = ratio_num / RatioDen
  \* --- one call of masking_struc_seqs_ids, row by row (SpecMask)
  mk_rows,     \* number of rows of the tensor being masked
  mk_i,        \* rows the for loop has processed
  mk_orig,     \* the current row of decoder_input_ids as the caller passed it
  mk_in,       \* the current row of decoder_input_ids now
  mk_out,      \* the current row of masked_decoder_input_ids
  mk_idxs,     \* idxs_to_mask of the current row
  mk_counts,   \* per processed row, how many positions were overwritten
  mk_pc,       \* "loop" | "returned" | "raised"
  \* --- main, train_model, evaluate_model (Spec)
  epochs,      \* config['epochs']
  epoch,       \* the loop variable of main's for loop
  pc,          \* the statement about to run
  error,       \* the exception that ended the run, or "none"
  mode,        \* model.training: "train" | "eval"
  grad_enabled,\* torch.is_grad_enabled()
  grads,       \* the parameters' .grad: "none" | "cleared" | "of_loss"
  opt_steps,   \* optimizer.step() calls so far: the parameter version
  calls,       \* the calls of the current Train iteration, in order
  batch_idx,   \* batches the current phase's loader has yielded
  decoder_input_ids,
  masked_decoder_input_ids,
  plan,        \* per row, the idxs_to_mask drawn by this iteration's masking
  masked_labels,
  loss,        \* "none" | "finite" | "nan"
  total_loss,  \* "zero" | "finite" | "nan"
  total_correct,
  total_samples,
  all_preds,
  all_labels,
  avg_loss,    \* "unset" | "zero" | "finite" | "nan"
  accuracy     \* <<numerator, denominator>>, <<0, 0>> until computed

mkVars == <<mk_rows, mk_i, mk_orig, mk_in, mk_out, mk_idxs, mk_counts, mk_pc>>
modelVars == <<mode, grad_enabled, grads, opt_steps>>
batchVars == <<decoder_input_ids, masked_decoder_input_ids, plan, masked_labels, loss>>
metricVars == <<total_correct, total_samples, all_preds, all_labels>>
resultVars == <<avg_loss, accuracy>>
progVars == <<epochs, epoch, pc, error, modelVars, calls, batch_idx, batchVars,
              total_loss, metricVars, resultVars>>
vars == <<ratio_num, mkVars, progVars>>

BlankRow == [p \in Positions |-> 0]

\* The per-batch locals of train_model / evaluate_model outside an iteration:
\* each is reassigned in the next iteration before it is read, and all end
\* with the function.
NoBatch ==
  /\ decoder_input_ids' = <<>>
  /\ masked_decoder_input_ids' = <<>>
  /\ plan' = <<>>
  /\ masked_labels' = <<>>
  /\ loss' = "none"

\* No call of masking_struc_seqs_ids in progress.
MaskIdle ==
  /\ mk_rows = 0
  /\ mk_i = 0
  /\ mk_orig = BlankRow
  /\ mk_in = BlankRow
  /\ mk_out = BlankRow
  /\ mk_idxs = {}
  /\ mk_counts = <<>>
  /\ mk_pc = "idle"

\* The program before main's loop: a fresh module is in training mode, gradient
\* computation is enabled, no parameter has a gradient.
ProgStart ==
  /\ epoch = 0
  /\ pc = "main_loop"
  /\ error = "none"
  /\ mode = "train"
  /\ grad_enabled = TRUE
  /\ grads = "none"
  /\ opt_steps = 0
  /\ calls = <<>>
  /\ batch_idx = 0
  /\ decoder_input_ids = <<>>
  /\ masked_decoder_input_ids = <<>>
  /\ plan = <<>>
  /\ masked_labels = <<>>
  /\ loss = "none"
  /\ total_loss = "zero"
  /\ total_correct = 0
  /\ total_samples = 0
  /\ all_preds = <<>>
  /\ all_labels = <<>>
  /\ avg_loss = "unset"
  /\ accuracy = <<0, 0>>

\* =================================================== masking_struc_seqs_ids
InitMask ==
  /\ ratio_num \in 1..RatioDen
  /\ mk_rows \in 1..MaskRows
  /\ mk_i = 0
  /\ mk_orig = BlankRow
  /\ mk_in = BlankRow
  /\ mk_out = BlankRow
  /\ mk_idxs = {}
  /\ mk_counts = <<>>
  /\ mk_pc = "loop"
  /\ epochs = 0
  /\ ProgStart

\* One iteration of `for input_id in masked_decoder_input_ids` that raises
\* (.item() on no or several eos, randperm of a negative length).
MaskRowRaise ==
  /\ mk_pc = "loop"
  /\ mk_i < mk_rows
  /\ \E row \in Rows :
       /\ RowRaises(row)
       /\ mk_orig' = row
       /\ mk_in' = row
       /\ mk_out' = row
  /\ mk_idxs' = {}
  /\ mk_pc' = "raised"
  /\ UNCHANGED <<ratio_num, mk_rows, mk_i, mk_counts, progVars>>

\* One iteration of the loop that completes.
MaskRowStep ==
  /\ mk_pc = "loop"
  /\ mk_i < mk_rows
  /\ \E row \in Rows :
       /\ ~RowRaises(row)
       /\ \E idxs \in IdxChoices(row, ratio_num) :
            /\ mk_orig' = row
            /\ mk_out' = MaskRow(row, idxs)
            /\ mk_in' = InputAfterMasking(row, MaskRow(row, idxs))
            /\ mk_idxs' = idxs
            /\ mk_counts' = Append(mk_counts, Cardinality(idxs))
  /\ mk_i' = mk_i + 1
  /\ UNCHANGED <<ratio_num, mk_rows, mk_pc, progVars>>

\* return masked_decoder_input_ids
MaskReturn ==
  /\ mk_pc = "loop"
  /\ mk_i = mk_rows
  /\ mk_pc' = "returned"
  /\ UNCHANGED <<ratio_num, mk_rows, mk_i, mk_orig, mk_in, mk_out, mk_idxs,
                 mk_counts, progVars>>

NextMask == MaskRowRaise \/ MaskRowStep \/ MaskReturn

SpecMask == InitMask /\ [][NextMask]_vars

\* ==================================================================== main
\* config['epochs'] and config['masking_ratio'] are read unvalidated (lines
\* 320-322): epochs = 0 is accepted and skips the loop.
Init ==
  /\ ratio_num \in 1..RatioDen
  /\ epochs \in 0..MaxEpochs
  /\ MaskIdle
  /\ ProgStart

\* An exception leaves the `with torch.no_grad()` block, if inside one, and
\* ends the run: nothing in train.py catches it, and every local ends with it.
Crash(err) ==
  /\ pc' = "crashed"
  /\ error' = err
  /\ grad_enabled' = TRUE
  /\ NoBatch
  /\ total_loss' = "zero"
  /\ total_correct' = 0
  /\ total_samples' = 0
  /\ all_preds' = <<>>
  /\ all_labels' = <<>>

\* for epoch in range(epochs): the body runs (lines 364-365).
MainEpoch ==
  /\ pc = "main_loop"
  /\ epoch < epochs
  /\ pc' = "t_begin"
  /\ UNCHANGED <<ratio_num, mkVars, epochs, epoch, error, modelVars, calls,
                 batch_idx, batchVars, total_loss, metricVars, resultVars>>

\* range(epochs) is exhausted: timer.stop (line 404).
MainDone ==
  /\ pc = "main_loop"
  /\ epoch >= epochs
  /\ pc' = "done"
  /\ UNCHANGED <<ratio_num, mkVars, epochs, epoch, error, modelVars, calls,
                 batch_idx, batchVars, total_loss, metricVars, resultVars>>

\* evaluate_model has returned: print, timer.stop, exit() (lines 388-391).
\* exit() ends the process inside the first pass of the loop body; the wandb
\* logging below it and a next pass of the loop never run.
MainExit ==
  /\ pc = "e_returned"
  /\ pc' = "exited"
  /\ UNCHANGED <<ratio_num, mkVars, epochs, epoch, error, modelVars, calls,
                 batch_idx, batchVars, total_loss, metricVars, resultVars>>

\* ============================================================= train_model
\* model.train(); total_loss = 0.0 (lines 84-86)
TrainBegin ==
  /\ pc = "t_begin"
  /\ mode' = ModeAfterTrain
  /\ total_loss' = "zero"
  /\ batch_idx' = 0
  /\ pc' = "t_loop"
  /\ UNCHANGED <<ratio_num, mkVars, epochs, epoch, error, grad_enabled, grads,
                 opt_steps, calls, batchVars, metricVars, resultVars>>

\* for batch in train_loader: the loader yields a batch (lines 87-91)
TrainFetch ==
  /\ pc = "t_loop"
  /\ batch_idx < MaxBatches
  /\ \E batch \in Batches : decoder_input_ids' = batch
  /\ batch_idx' = batch_idx + 1
  /\ calls' = <<>>
  /\ pc' = "t_zero_grad"
  /\ UNCHANGED <<ratio_num, mkVars, epochs, epoch, error, modelVars,
                 masked_decoder_input_ids, plan, masked_labels, loss,
                 total_loss, metricVars, resultVars>>

\* optimizer.zero_grad() (line 93)
TrainZeroGrad ==
  /\ pc = "t_zero_grad"
  /\ grads' = "cleared"
  /\ calls' = Append(calls, "zero_grad")
  /\ pc' = "t_mask"
  /\ UNCHANGED <<ratio_num, mkVars, epochs, epoch, error, mode, grad_enabled,
                 opt_steps, batch_idx, batchVars, total_loss, metricVars, resultVars>>

\* masking_struc_seqs_ids(...) raises (lines 95-97)
TrainMaskRaise ==
  /\ pc = "t_mask"
  /\ BatchRaises(decoder_input_ids)
  /\ Crash("RuntimeError")
  /\ UNCHANGED <<ratio_num, mkVars, epochs, epoch, mode, grads, opt_steps, calls,
                 batch_idx, resultVars>>

\* masked_decoder_input_ids = masking_struc_seqs_ids(...) (lines 95-97)
TrainMask ==
  /\ pc = "t_mask"
  /\ ~BatchRaises(decoder_input_ids)
  /\ \E pl \in PlanChoices(decoder_input_ids, ratio_num) :
       /\ plan' = pl
       /\ masked_decoder_input_ids' = MaskBatch(decoder_input_ids, pl)
       /\ decoder_input_ids' =
            InputAfterMasking(decoder_input_ids, MaskBatch(decoder_input_ids, pl))
  /\ calls' = Append(calls, "mask")
  /\ pc' = "t_forward"
  /\ UNCHANGED <<ratio_num, mkVars, epochs, epoch, error, modelVars, batch_idx,
                 masked_labels, loss, total_loss, metricVars, resultVars>>

\* logits = model(...) (lines 99-104); the logits are the model's and left open.
TrainForward ==
  /\ pc = "t_forward"
  /\ calls' = Append(calls, "forward")
  /\ pc' = "t_labels"
  /\ UNCHANGED <<ratio_num, mkVars, epochs, epoch, error, modelVars, batch_idx,
                 batchVars, total_loss, metricVars, resultVars>>

\* masked_labels (lines 107-111)
TrainLabels ==
  /\ pc = "t_labels"
  /\ masked_labels' = MaskedLabels(decoder_input_ids, masked_decoder_input_ids)
  /\ calls' = Append(calls, "labels")
  /\ pc' = "t_loss"
  /\ UNCHANGED <<ratio_num, mkVars, epochs, epoch, error, modelVars, batch_idx,
                 decoder_input_ids, masked_decoder_input_ids, plan, loss,
                 total_loss, metricVars, resultVars>>

\* loss = criterion(logits, masked_labels) (lines 114-122)
TrainLoss ==
  /\ pc = "t_loss"
  /\ loss' = Criterion(masked_labels)
  /\ calls' = Append(calls, "loss")
  /\ pc' = "t_backward"
  /\ UNCHANGED <<ratio_num, mkVars, epochs, epoch, error, modelVars, batch_idx,
                 decoder_input_ids, masked_decoder_input_ids, plan, masked_labels,
                 total_loss, metricVars, resultVars>>

\* fabric.backward() (line 125) is called without the loss. fabric is not part
\* of this repository: the call either rejects the missing tensor ...
TrainBackwardRaise ==
  /\ pc = "t_backward"
  /\ Crash("TypeError")
  /\ calls' = Append(calls, "backward()")
  /\ UNCHANGED <<ratio_num, mkVars, epochs, epoch, mode, grads, opt_steps,
                 batch_idx, resultVars>>

\* ... or returns; given no loss, it backpropagates none: the gradients stay
\* as zero_grad left them.
TrainBackward ==
  /\ pc = "t_backward"
  /\ calls' = Append(calls, "backward()")
  /\ pc' = "t_step"
  /\ UNCHANGED <<ratio_num, mkVars, epochs, epoch, error, modelVars, batch_idx,
                 batchVars, total_loss, metricVars, resultVars>>

\* optimizer.step() (line 126)
TrainStep ==
  /\ pc = "t_step"
  /\ opt_steps' = opt_steps + 1
  /\ calls' = Append(calls, "step")
  /\ pc' = "t_accum"
  /\ UNCHANGED <<ratio_num, mkVars, epochs, epoch, error, mode, grad_enabled, grads,
                 batch_idx, batchVars, total_loss, metricVars, resultVars>>

\* total_loss += loss.item() (lines 128-131); the iteration ends.
TrainAccum ==
  /\ pc = "t_accum"
  /\ total_loss' = AddLoss(total_loss, loss)
  /\ NoBatch
  /\ pc' = "t_loop"
  /\ UNCHANGED <<ratio_num, mkVars, epochs, epoch, error, modelVars, calls,
                 batch_idx, metricVars, resultVars>>

\* The loader is exhausted, len(train_loader) = batch_idx = 0:
\* avg_loss = total_loss / len(train_loader) divides by zero (line 133).
TrainEndRaise ==
  /\ pc = "t_loop"
  /\ batch_idx = 0
  /\ Crash("ZeroDivisionError")
  /\ UNCHANGED <<ratio_num, mkVars, epochs, epoch, mode, grads, opt_steps, calls,
                 batch_idx, resultVars>>

\* The loader is exhausted: avg_loss = total_loss / len(train_loader), with
\* len(train_loader) = batch_idx > 0, and the two prints (lines 133-135).
TrainEnd ==
  /\ pc = "t_loop"
  /\ batch_idx > 0
  /\ avg_loss' = total_loss
  /\ pc' = "t_return"
  /\ UNCHANGED <<ratio_num, mkVars, epochs, epoch, error, modelVars, calls,
                 batch_idx, batchVars, total_loss, metricVars, accuracy>>

\* train_model returns nothing: its locals end with it (line 135 to 379).
TrainReturn ==
  /\ pc = "t_return"
  /\ avg_loss' = "unset"
  /\ total_loss' = "zero"
  /\ calls' = <<>>
  /\ pc' = "e_begin"
  /\ UNCHANGED <<ratio_num, mkVars, epochs, epoch, error, modelVars,
                 batch_idx, batchVars, metricVars, accuracy>>

\* ========================================================== evaluate_model
\* model.eval(), the counters, the lists, with torch.no_grad() (lines 167-175)
EvalBegin ==
  /\ pc = "e_begin"
  /\ mode' = ModeAfterEval
  /\ grad_enabled' = FALSE
  /\ total_loss' = "zero"
  /\ total_correct' = 0
  /\ total_samples' = 0
  /\ all_preds' = <<>>
  /\ all_labels' = <<>>
  /\ batch_idx' = 0
  /\ pc' = "e_loop"
  /\ UNCHANGED <<ratio_num, mkVars, epochs, epoch, error, grads, opt_steps, calls,
                 batchVars, resultVars>>

\* for batch in test_loader: the loader yields a batch (lines 176-180)
EvalFetch ==
  /\ pc = "e_loop"
  /\ batch_idx < MaxBatches
  /\ \E batch \in Batches : decoder_input_ids' = batch
  /\ batch_idx' = batch_idx + 1
  /\ pc' = "e_mask"
  /\ UNCHANGED <<ratio_num, mkVars, epochs, epoch, error, modelVars, calls,
                 masked_decoder_input_ids, plan, masked_labels, loss,
                 total_loss, metricVars, resultVars>>

\* masking_struc_seqs_ids(...) raises (lines 183-185)
EvalMaskRaise ==
  /\ pc = "e_mask"
  /\ BatchRaises(decoder_input_ids)
  /\ Crash("RuntimeError")
  /\ UNCHANGED <<ratio_num, mkVars, epochs, epoch, mode, grads, opt_steps, calls,
                 batch_idx, resultVars>>

\* masked_decoder_input_ids = masking_struc_seqs_ids(...) (lines 183-185)
EvalMask ==
  /\ pc = "e_mask"
  /\ ~BatchRaises(decoder_input_ids)
  /\ \E pl \in PlanChoices(decoder_input_ids, ratio_num) :
       /\ plan' = pl
       /\ masked_decoder_input_ids' = MaskBatch(decoder_input_ids, pl)
       /\ decoder_input_ids' =
            InputAfterMasking(decoder_input_ids, MaskBatch(decoder_input_ids, pl))
  /\ pc' = "e_labels"
  /\ UNCHANGED <<ratio_num, mkVars, epochs, epoch, error, modelVars, calls,
                 batch_idx, masked_labels, loss, total_loss, metricVars, resultVars>>

\* logits = model(...); masked_labels (lines 188-198)
EvalLabels ==
  /\ pc = "e_labels"
  /\ masked_labels' = MaskedLabels(decoder_input_ids, masked_decoder_input_ids)
  /\ pc' = "e_loss"
  /\ UNCHANGED <<ratio_num, mkVars, epochs, epoch, error, modelVars, calls,
                 batch_idx, decoder_input_ids, masked_decoder_input_ids, plan, loss,
                 total_loss, metricVars, resultVars>>

\* loss = criterion(...); total_loss += loss.item() (lines 201-207)
EvalLoss ==
  /\ pc = "e_loss"
  /\ loss' = Criterion(masked_labels)
  /\ total_loss' = AddLoss(total_loss, Criterion(masked_labels))
  /\ pc' = "e_metrics"
  /\ UNCHANGED <<ratio_num, mkVars, epochs, epoch, error, modelVars, calls,
                 batch_idx, decoder_input_ids, masked_decoder_input_ids, plan,
                 masked_labels, metricVars, resultVars>>

\* predicted = argmax of the logits, one class per position, whatever the
\* model computes; the counters and the lists (lines 210-223)
EvalMetrics ==
  /\ pc = "e_metrics"
  /\ \E predicted \in PredictedChoices(masked_labels) :
       /\ all_preds' = all_preds \o Masked(predicted, CorrectMask(masked_labels))
       /\ total_correct' = total_correct + CorrectCount(predicted, masked_labels)
  /\ all_labels' = all_labels \o Masked(masked_labels, CorrectMask(masked_labels))
  /\ total_samples' = total_samples + SampleCount(masked_labels)
  /\ NoBatch
  /\ pc' = "e_loop"
  /\ UNCHANGED <<ratio_num, mkVars, epochs, epoch, error, modelVars, calls,
                 batch_idx, total_loss, resultVars>>

\* The loader is exhausted, len(test_loader) = batch_idx = 0: the no_grad block
\* ends and avg_loss = total_loss / len(test_loader) divides by zero (line 225).
EvalEndRaise ==
  /\ pc = "e_loop"
  /\ batch_idx = 0
  /\ Crash("ZeroDivisionError")
  /\ UNCHANGED <<ratio_num, mkVars, epochs, epoch, mode, grads, opt_steps, calls,
                 batch_idx, resultVars>>

\* The loader is exhausted: the no_grad block ends; avg_loss = total_loss /
\* len(test_loader), with len(test_loader) = batch_idx > 0, accuracy and the
\* sklearn scores (lines 225-235).
EvalEnd ==
  /\ pc = "e_loop"
  /\ batch_idx > 0
  /\ grad_enabled' = TRUE
  /\ avg_loss' = total_loss
  /\ accuracy' = Accuracy(total_correct, total_samples)
  /\ pc' = "e_return"
  /\ UNCHANGED <<ratio_num, mkVars, epochs, epoch, error, mode, grads, opt_steps,
                 calls, batch_idx, batchVars, total_loss, metricVars>>

\* return {"avg_loss": ..., "accuracy": ..., "f1_score": ...} (line 237): the
\* counters and the lists end with the function.
EvalReturn ==
  /\ pc = "e_return"
  /\ total_loss' = "zero"
  /\ total_correct' = 0
  /\ total_samples' = 0
  /\ all_preds' = <<>>
  /\ all_labels' = <<>>
  /\ pc' = "e_returned"
  /\ UNCHANGED <<ratio_num, mkVars, epochs, epoch, error, modelVars, calls,
                 batch_idx, batchVars, resultVars>>

Next ==
  \/ MainEpoch \/ MainDone \/ MainExit
  \/ TrainBegin \/ TrainFetch \/ TrainZeroGrad \/ TrainMaskRaise \/ TrainMask
  \/ TrainForward \/ TrainLabels \/ TrainLoss \/ TrainBackwardRaise \/ TrainBackward
  \/ TrainStep \/ TrainAccum \/ TrainEndRaise \/ TrainEnd \/ TrainReturn
  \/ EvalBegin \/ EvalFetch \/ EvalMaskRaise \/ EvalMask \/ EvalLabels \/ EvalLoss
  \/ EvalMetrics \/ EvalEndRaise \/ EvalEnd \/ EvalReturn

Spec == Init /\ [][Next]_vars

\* ================================================================== claims
\* ------------------------------------------------- masking (under SpecMask)
\* The loop has drawn a row: mk_orig is a row of the tensor.
RowDrawn == mk_i >= 1 \/ mk_pc = "raised"

\* The current row went through the loop body without raising.
RowProcessed == mk_i >= 1 /\ mk_pc # "raised"

\* Every selected position p satisfies 0 < p < eos_position.
SelectedInside == \A p \in mk_idxs : 0 < p /\ p < end_idx(mk_orig)

\* C1 as stated: for every row with valid length L >= 1 and every ratio in
\* (0,1], exactly max(1, round(r * L)) distinct positions are selected, each
\* strictly between position 0 and the eos position.
C1_Rounded ==
  (RowProcessed /\ seq_len(mk_orig) >= 1) =>
     /\ Cardinality(mk_idxs)
          = Max(1, IntRound(seq_len(mk_orig) * ratio_num, RatioDen))
     /\ SelectedInside

\* C1 amended: for every row in which eos_id occurs exactly once, with valid
\* length L >= 1, and every ratio in (0,1], the row is masked without an
\* error and exactly max(1, floor(r * L)) distinct positions are selected,
\* each strictly between position 0 and the eos position.
C1_Truncated ==
  /\ (RowDrawn /\ ItemOk(mk_orig)) =>
        (seq_len(mk_orig) >= 1 => mk_pc # "raised")
  /\ (RowProcessed /\ seq_len(mk_orig) >= 1) =>
        /\ Cardinality(mk_idxs)
             = Max(1, (seq_len(mk_orig) * ratio_num) \div RatioDen)
        /\ SelectedInside

\* C1 witness: a processed row where round and floor differ (L = 2, r = 3/4,
\* r * L = 1.5) and one position was selected.
C1_Witness ==
  /\ RowProcessed
  /\ seq_len(mk_orig) = 2
  /\ 4 * ratio_num = 3 * RatioDen
  /\ Cardinality(mk_idxs) = 1

\* C4 as stated: a row with valid_length <= 0 makes the function signal an
\* error; it never returns normally with a row in which no position was masked.
C4_ShortRowRejected ==
  /\ (RowDrawn /\ ItemOk(mk_orig)) =>
        (seq_len(mk_orig) <= 0 => mk_pc = "raised")
  /\ mk_pc = "returned" => \A k \in DOMAIN mk_counts : mk_counts[k] >= 1

\* C7: in the masked row every selected position holds mask_id, every other
\* position holds the input's id, and the input row is as the caller passed it.
C7_OnlySelectedChange ==
  RowProcessed =>
     /\ \A p \in Positions :
          mk_out[p] = (IF p \in mk_idxs THEN mask_id ELSE mk_orig[p])
     /\ mk_in = mk_orig

\* C7 witness: a row was processed, a selected position changed in the masked
\* row, and the function went on to return.
C7_Witness ==
  /\ mk_pc = "returned"
  /\ mk_idxs # {}
  /\ \E p \in mk_idxs : mk_orig[p] # mask_id /\ mk_out[p] = mask_id
  /\ \E p \in Positions \ mk_idxs : mk_out[p] = mk_orig[p]

\* C10 as stated: the eos position is the FIRST occurrence of eos_id; every
\* row with one or more occurrences, the first at index >= 2, is masked
\* without an error, within the positions before that first occurrence.
C10_FirstOccurrence ==
  (RowDrawn /\ EosPositions(mk_orig) # {}) =>
     (end_idx(mk_orig) >= 2 => mk_pc # "raised" /\ SelectedInside)

\* C10 amended: the eos position is the ONLY occurrence of eos_id; every row
\* with exactly one occurrence, at index >= 2, is masked without an error,
\* at one position or more, all before that occurrence; a row with two or
\* more occurrences makes the function raise.
C10_OnlyOccurrence ==
  /\ (RowDrawn /\ ItemOk(mk_orig)) =>
        (end_idx(mk_orig) >= 2 =>
           mk_pc # "raised" /\ mk_idxs # {} /\ SelectedInside)
  /\ (RowDrawn /\ Cardinality(EosPositions(mk_orig)) >= 2) => mk_pc = "raised"

\* C10 witness: a row with its only eos at index >= 2 was masked.
C10_Witness ==
  /\ RowProcessed
  /\ ItemOk(mk_orig)
  /\ end_idx(mk_orig) >= 2
  /\ mk_idxs # {}

\* ------------------------------------------- the whole program (under Spec)
\* The labels of the current iteration exist.
LabelsDerived == masked_labels # <<>>

\* C2 as stated: a label is a real label (not -100) exactly at the positions
\* selected by this iteration's masking draw, and there it is the original
\* id, whatever the original row holds.
C2_LabelIffSelected ==
  LabelsDerived =>
     \A i \in DOMAIN masked_labels : \A p \in Positions :
        /\ (masked_labels[i][p] # IgnoreIndex) <=> (p \in plan[i])
        /\ p \in plan[i] => masked_labels[i][p] = decoder_input_ids[i][p]

\* C3 as stated: for E >= 1 configured epochs the run ends only after the
\* E-th Evaluate phase: when the process ends, epoch + 1 epochs have run, and
\* that is E.
C3_AllEpochsRun ==
  (epochs >= 1 /\ pc \in {"exited", "done"}) => epoch + 1 = epochs

\* C5 as stated: a phase whose loader yields no batch, or a batch whose labels
\* are all ignored, never crashes the run, and the average reported is 0.
C5_DegenerateIsZero ==
  /\ error # "ZeroDivisionError"
  /\ pc \in {"t_return", "e_return"} => avg_loss # "nan"

\* evaluate_model is between its first and its last statement.
InEvaluate == pc \in {"e_loop", "e_mask", "e_labels", "e_loss", "e_metrics", "e_return"}

C8_StepAfterLossBackward ==
  \A k \in DOMAIN calls :
     /\ calls[k] # "backward()"
     /\ calls[k] = "step" => \E j \in 1..(k - 1) : calls[j] = "backward(loss)"

====
